---- MODULE Spec2Model ----
(***************************************************************************)
(* Reminder / notification orchestration of src/main.py: the HubSpot       *)
(* webhook handler (hubspot_webhook), the per-deal reminder task           *)
(* (schedule_owner_reminder), cancel_deal_reminders and the startup        *)
(* recovery pass (restore_reminders_from_sheets), run by one asyncio       *)
(* event loop.  A step of the model is one uninterrupted run of a          *)
(* coroutine between two awaits; hs_get_deal and the sheet helpers are     *)
(* synchronous calls and never yield.                                      *)
(***************************************************************************)
EXTENDS Integers, Sequences, FiniteSets, Bags, TLC

\* ------------------------------------------------------------------ bounds
MaxHandlers == 2    \* webhook requests in flight at the same time
MaxRestarts == 1    \* restarts of the process
MaxClicks == 2      \* interest callbacks in flight at the same time

Ids == {"1", "2"}   \* deal ids
NoId == ""          \* an event whose objectId/id is missing or blank
Users == {"u1", "u2"}   \* Telegram user ids

\* ------------------------------------------------- raw property values
\* A HubSpot property value as Python sees it: None, a bool or a str.
NoneV == [t |-> "none", v |-> ""]
BoolV(b) == [t |-> "bool", v |-> IF b THEN "True" ELSE "False"]
StrV(s) == [t |-> "str", v |-> s]

\* str.strip() and str.lower() on the strings the model uses
Strip(s) == CASE s = " True " -> "True"
              [] s = "  " -> ""
              [] OTHER -> s
Lower(s) == CASE s = "True" -> "true"
              [] OTHER -> s

\* bool(x) of a raw value
Truthy(x) == \/ x.t = "bool" /\ x.v = "True"
             \/ x.t = "str" /\ x.v # ""

\* main.py 931-936, 323-328, 632-637: the distribution flag test
FlagIsTrue(fv) == IF fv.t = "bool" THEN fv.v = "True"
                  ELSE IF fv.t = "str" THEN Lower(Strip(fv.v)) = "true"
                  ELSE FALSE

\* main.py 944-951, 336-343, 644-652: the main practice test
MpIsSet(mv) == IF mv.t = "none" THEN FALSE
               ELSE IF mv.t = "str" THEN Truthy(StrV(Strip(mv.v)))
               ELSE Truthy(mv)

\* What hs_get_deal returns (st = "ok") or that it raised (st = "fail").
Deal(f, m, o) == [st |-> "ok", flag |-> f, mp |-> m, owner |-> o]
DealQ == Deal(StrV(" True "), NoneV, StrV("o1"))       \* qualifying, owner set
DealQN == Deal(BoolV(TRUE), StrV("  "), NoneV)         \* qualifying, no owner
DealT == Deal(StrV("true"), StrV("tax"), StrV("o1"))   \* main practice set
DealF == Deal(StrV("false"), NoneV, StrV("o1"))        \* flag not true
FetchFailed == [st |-> "fail", flag |-> NoneV, mp |-> NoneV, owner |-> NoneV]
NotFetched == [st |-> "none", flag |-> NoneV, mp |-> NoneV, owner |-> NoneV]
DealStates == {DealQ, DealQN, DealT, DealF}
FetchResults == DealStates \cup {FetchFailed}
\* an event and what hs_get_deal gives for it; an event without id is
\* skipped before the fetch
EventInputs == (Ids \X FetchResults) \cup {<<NoId, NotFetched>>}

\* ------------------------------------------------------------------- state
\* The rows appended to the sheets are read only by the next process start;
\* Init draws the two sets that start-up read.
VARIABLES
    phase,                \* "recovering" | "recovered" | "serving"
    deals_ids,            \* restore_reminders_from_sheets: ids read from Deals
    chosen_practice_ids,  \* ... and from Chosen_practice
    todo,                 \* ... the candidates the for-loop has yet to visit
    seen,                 \* per candidate, what the recovery pass fetched
    posted,               \* _POSTED_DEALS
    active,               \* _ACTIVE_REMINDERS: id -> task of that id (0: no entry)
    tasks,                \* per id, the reminder tasks created in this lifetime
    handlers,             \* the hubspot_webhook requests in flight (a bag)
    nClaims,              \* per id, claims into _POSTED_DEALS that succeeded
    dups,                 \* ids of which a delivery was skipped as a duplicate
    lastFetch,            \* per id, how the fetch of the last wake-up ended
    lastSend,             \* per id, how the reminder send after it ended
    settled,              \* ids whose deal will never be eligible again
    troubles,             \* what went wrong so far in the batch being processed
    sent,                 \* ids whose initial notification this process sent
    sentBefore,           \* ... and those an earlier process sent
    restarts,             \* restarts of the process so far
    interest,             \* _INTEREST_USERS: id -> set of user ids
    clicks,               \* the interest_callback calls in flight (a bag)
    rows,                 \* the rows handed to the Interest sheet (a bag)
    nFirst,               \* the clicks that found first_time true (a bag)
    shown,                \* the last answer given to a callback query
    cpc,                  \* add_business_hours_msk: where the call is
    start_dt_utc,         \* ... its argument start_dt_utc
    hours,                \* ... its argument hours
    current_msk,          \* ... its local current_msk
    remaining,            \* ... its local remaining
    returned,             \* ... the value it returned
    chosenRows,           \* ids of the rows handed to the Chosen_practice sheet (a bag)
    terminalPosts,        \* ids of the main-practice notifications sent off (a bag)
    terminalEvents,       \* ids of the events delivered with the main practice set (a bag)
    ownerless,            \* ids claimed by an event whose deal had no owner
    lateOwner,            \* ... of which a later event came with an owner
    hours2,               \* the hours of a second add_business_hours_msk call
    chained,              \* ... what it returned, started where the first ended
    direct                \* what one call over hours + hours2 returned

\* the state of the interest callback, and what the observed scenarios add to
\* the program's own state
interestVars == <<interest, clicks, rows, nFirst, shown>>
loopAux == <<lastFetch, lastSend, settled>>
batchAux == <<troubles>>
restartAux == <<sent, sentBefore, restarts>>
clockVars == <<cpc, start_dt_utc, hours, current_msk, remaining, returned>>
terminalVars == <<chosenRows, terminalPosts, terminalEvents>>
ownerVars == <<ownerless, lateOwner>>
chainVars == <<hours2, chained, direct>>
aux == <<loopAux, batchAux, restartAux, interestVars, clockVars, terminalVars,
         ownerVars, chainVars>>

\* an answer of query.answer: a toast to one user, or the popup with a list
Toast(d, u, text) == [id |-> d, user |-> u, text |-> text, users |-> {}]
Popup(d, us) == [id |-> d, user |-> "", text |-> "list", users |-> us]
NoAnswer == [id |-> NoId, user |-> "", text |-> "", users |-> {}]

vars == <<phase, deals_ids, chosen_practice_ids, todo, seen, posted, active,
          tasks, handlers, nClaims, dups, aux>>

\* a request between two events of its batch
InLoop == [pc |-> "loop", id |-> NoId, owner |-> NoneV]
\* a request suspended in a send_message for the deal ev
InSend(where, ev, owner) == [pc |-> where, id |-> ev, owner |-> owner]

One(x) == SetToBag({x})

\* ----------------------------------------------------------- reminder tasks
\* asyncio.create_task(schedule_owner_reminder(deal_id, ...)): the task exists
\* but has not run its first step
NewTask(from) == [origin |-> from, pc |-> "created", cancel |-> FALSE]

\* task.done()
Done(t) == t.pc \in {"stopped", "cancelled"}

\* mutant of Unregister: the finally-clause is missing
UnregisterNever(act, d) == act

\* finally-clause of schedule_owner_reminder: the entry of the id is deleted,
\* whichever task it names
Unregister(act, d) == IF act[d] # 0 THEN [act EXCEPT ![d] = 0] ELSE act

\* mutant of CancelTasks: every task of the id that has not ended is
\* cancelled, registered or not
CancelTasksOfId(act, tk, d) ==
    [tk EXCEPT ![d] = [i \in DOMAIN tk[d] |->
                          IF Done(tk[d][i]) THEN tk[d][i]
                          ELSE [tk[d][i] EXCEPT !.cancel = TRUE]]]

\* cancel_deal_reminders(deal_id): the new task list and the new registry
CancelTasks(act, tk, d) ==
    IF act[d] # 0 /\ ~Done(tk[d][act[d]])
    THEN [tk EXCEPT ![d][act[d]].cancel = TRUE]
    ELSE tk
CancelRegistry(act, d) == IF act[d] # 0 THEN [act EXCEPT ![d] = 0] ELSE act

\* first step of schedule_owner_reminder: register, compute the delay, sleep
TaskStart(d, t) ==
    /\ phase = "serving"
    /\ tasks[d][t].pc = "created"
    /\ active' = [active EXCEPT ![d] = t]
    /\ tasks' = [tasks EXCEPT ![d][t].pc = "sleeping"]
    /\ UNCHANGED <<phase, deals_ids, chosen_practice_ids, todo, seen, posted,
                   handlers, nClaims, dups>>

\* mutants of ProceedsToSend: a failed fetch stops the loop; the loop never
\* stops
ProceedsOnlyWhenFetched(r) ==
    IF r.st = "fail" THEN FALSE
    ELSE FlagIsTrue(r.flag) /\ ~MpIsSet(r.mp)
ProceedsAlways(r) == TRUE

\* mutant of ProceedsToSend: the main practice is not re-checked
ProceedsIgnoringMp(r) ==
    IF r.st = "fail" THEN TRUE
    ELSE FlagIsTrue(r.flag)

\* the decision taken on the re-fetched deal: TRUE when the loop goes on to
\* send (a failed fetch proceeds best effort)
ProceedsToSend(r) ==
    IF r.st = "fail" THEN TRUE
    ELSE FlagIsTrue(r.flag) /\ ~MpIsSet(r.mp)

\* the sleep is over: re-fetch the deal, then stop or start sending
TaskWake(d, t, r) ==
    /\ phase = "serving"
    /\ tasks[d][t].pc = "sleeping"
    /\ ~tasks[d][t].cancel
    /\ IF ProceedsToSend(r)
       THEN /\ tasks' = [tasks EXCEPT ![d][t].pc = "sending"]
            /\ active' = active
       ELSE /\ tasks' = [tasks EXCEPT ![d][t].pc = "stopped"]
            /\ active' = Unregister(active, d)
    /\ UNCHANGED <<phase, deals_ids, chosen_practice_ids, todo, seen, posted,
                   handlers, nClaims, dups>>

\* mutant of AfterSend: a failed send is tried again at once
AfterSendFailureRetries(t, ok) ==
    IF ok THEN [t EXCEPT !.pc = "sleeping"] ELSE [t EXCEPT !.pc = "sending"]

\* mutant of AfterSend: a failed send ends the loop
AfterSendFailureEnds(t, ok) ==
    IF ok THEN [t EXCEPT !.pc = "sleeping"] ELSE [t EXCEPT !.pc = "stopped"]

\* main.py 669-679: the send is logged when it returns, and logged and not
\* re-raised when it raises; the while-loop goes on to its next sleep
AfterSend(t, ok) ==
    IF ok THEN [t EXCEPT !.pc = "sleeping"] ELSE [t EXCEPT !.pc = "sleeping"]

\* application.bot.send_message returned (ok) or raised
TaskSendDone(d, t, ok) ==
    /\ phase = "serving"
    /\ tasks[d][t].pc = "sending"
    /\ ~tasks[d][t].cancel
    /\ tasks' = [tasks EXCEPT ![d][t] = AfterSend(@, ok)]
    /\ UNCHANGED <<phase, deals_ids, chosen_practice_ids, todo, seen, posted,
                   active, handlers, nClaims, dups>>

\* mutants of OnCancelled: the CancelledError is swallowed and the loop goes
\* on; the interrupted await completes and the loop goes back to sleep
OnCancelledSwallowed(t) == [t EXCEPT !.cancel = FALSE]
OnCancelledResumed(t) == [t EXCEPT !.pc = "sleeping", !.cancel = FALSE]

\* except asyncio.CancelledError: log and re-raise
OnCancelled(t) == [t EXCEPT !.pc = "cancelled"]

\* the cancelled task is resumed: CancelledError is raised at the await it is
\* suspended in (the sleep or the send), then the finally-clause runs
TaskCancelled(d, t) ==
    /\ phase = "serving"
    /\ tasks[d][t].pc \in {"sleeping", "sending"}
    /\ tasks[d][t].cancel
    /\ tasks' = [tasks EXCEPT ![d][t] = OnCancelled(@)]
    /\ active' = Unregister(active, d)
    /\ UNCHANGED <<phase, deals_ids, chosen_practice_ids, todo, seen, posted,
                   handlers, nClaims, dups>>

\* ------------------------------------------------------------ recovery pass
\* main.py 298: candidates = deals_ids - chosen_practice_ids
Candidates(a, b) == a \ b

\* mutant of RestoreQualifies: the owner test is missing
RestoreIgnoringOwner(r) ==
    /\ FlagIsTrue(r.flag)
    /\ ~MpIsSet(r.mp)

\* main.py 322-355: the three skip tests of the recovery pass
RestoreQualifies(r) ==
    /\ FlagIsTrue(r.flag)
    /\ ~MpIsSet(r.mp)
    /\ Truthy(r.owner)

\* mutant of LeftToVisit: a failed fetch ends the scan
LeftAbortOnFail(left, d, r) == IF r.st = "fail" THEN {} ELSE left \ {d}

\* main.py 363-368: a failed fetch is counted and the for-loop goes on
LeftToVisit(left, d, r) == left \ {d}

\* mutant of PostedAtStart: the ids posted by the earlier process are kept
PostedKept(before) == before

\* main.py 90: _POSTED_DEALS is created empty when the module is loaded,
\* whatever the earlier process held
PostedAtStart(before) == {}

\* The process starts: the module globals are empty and on_startup runs
\* restore_reminders_from_sheets on the two sets read from the sheets.
Init ==
    /\ deals_ids \in SUBSET Ids
    /\ chosen_practice_ids \in SUBSET Ids
    /\ todo = Candidates(deals_ids, chosen_practice_ids)
    /\ phase = IF todo = {} THEN "recovered" ELSE "recovering"
    /\ seen = [d \in Ids |-> NotFetched]
    /\ posted = PostedAtStart({})
    /\ active = [d \in Ids |-> 0]
    /\ tasks = [d \in Ids |-> << >>]
    /\ handlers = EmptyBag
    /\ nClaims = [d \in Ids |-> 0]
    /\ dups = {}
    /\ lastFetch = [d \in Ids |-> "none"]
    /\ lastSend = [d \in Ids |-> "none"]
    /\ settled = {}
    /\ troubles = {}
    /\ sent = {}
    /\ sentBefore = {}
    /\ restarts = 0
    /\ interest = [d \in Ids |-> {}]
    /\ clicks = EmptyBag
    /\ rows = EmptyBag
    /\ nFirst = EmptyBag
    /\ shown = NoAnswer
    /\ cpc = "idle"
    /\ start_dt_utc = 0
    /\ hours = 0
    /\ current_msk = 0
    /\ remaining = 0
    /\ returned = 0
    /\ chosenRows = EmptyBag
    /\ terminalPosts = EmptyBag
    /\ terminalEvents = EmptyBag
    /\ ownerless = {}
    /\ lateOwner = {}
    /\ hours2 = 0
    /\ chained = 0
    /\ direct = 0

\* one iteration of "for deal_id in candidates" (a set: any order)
RecoveryStep(d, r) ==
    /\ phase = "recovering"
    /\ d \in todo
    /\ IF active[d] # 0
       THEN /\ todo' = todo \ {d}
            /\ UNCHANGED <<seen, tasks>>
       ELSE /\ seen' = [seen EXCEPT ![d] = r]
            /\ todo' = LeftToVisit(todo, d, r)
            /\ tasks' = IF r.st = "ok" /\ RestoreQualifies(r)
                        THEN [tasks EXCEPT ![d] = Append(@, NewTask("recovery"))]
                        ELSE tasks
    /\ phase' = IF todo' = {} THEN "recovered" ELSE "recovering"
    /\ UNCHANGED <<deals_ids, chosen_practice_ids, posted, active, handlers,
                   nClaims, dups>>

\* restore_reminders_from_sheets has returned, on_startup returns and the
\* server starts to accept requests
StartServing ==
    /\ phase = "recovered"
    /\ phase' = "serving"
    /\ deals_ids' = {}
    /\ chosen_practice_ids' = {}
    /\ seen' = [d \in Ids |-> NotFetched]
    /\ UNCHANGED <<todo, posted, active, tasks, handlers, nClaims, dups>>

\* ------------------------------------------------------------ webhook path
\* mutant of ClaimSucceeds: the membership test is missing
ClaimUnchecked(p, d) == TRUE

\* main.py 985-989: the check of the check-and-insert under _POST_LOCK
ClaimSucceeds(p, d) == d \notin p

\* mutant of PostedAdd: the set is replaced
PostedReplace(p, d) == {d}

\* main.py 989: _POSTED_DEALS.add(deal_id)
PostedAdd(p, d) == p \cup {d}

\* mutant of ReachesSchedule: the reminder is scheduled after a failed send
ReachesScheduleAlways(ok) == TRUE

\* main.py 1055-1119: an exception of the send leaves the try-block, so the
\* lines that schedule the reminder are reached only when the send returned
ReachesSchedule(ok) == ok

\* mutant of OnEventException: the exception ends the request
OnEventExceptionAborts == [pc |-> "raised", id |-> NoId, owner |-> NoneV]

\* main.py 1118-1119: an exception raised while an event is processed is
\* logged inside the for-loop, which goes on with the next event
OnEventException == InLoop

\* mutant of SchedulesReminder: the owner test is missing
SchedulesAlways(owner) == TRUE

\* main.py 1112: a reminder is scheduled only for a deal with an owner
SchedulesReminder(owner) == Truthy(owner)

\* a request arrives: await request.json(), then the for-loop over the events
Accept ==
    /\ phase = "serving"
    /\ BagCardinality(handlers) < MaxHandlers
    /\ handlers' = handlers (+) One(InLoop)
    /\ UNCHANGED <<phase, deals_ids, chosen_practice_ids, todo, seen, posted,
                   active, tasks, nClaims, dups>>

\* One event of the batch, from the top of the loop body to its first await
\* or to its continue.  ev is the event's deal id, r what hs_get_deal gives.
HandleEvent(ev, r) ==
    /\ phase = "serving"
    /\ BagIn(InLoop, handlers)
    /\ IF ev = NoId
       THEN \* 923-925: no deal_id
            UNCHANGED <<handlers, posted, active, tasks, nClaims, dups>>
       ELSE IF r.st = "fail"
       THEN \* 927 raises, 1118 catches
            /\ handlers' = (handlers (-) One(InLoop)) (+) One(OnEventException)
            /\ UNCHANGED <<posted, active, tasks, nClaims, dups>>
       ELSE IF ~FlagIsTrue(r.flag)
       THEN \* 937-941
            /\ tasks' = CancelTasks(active, tasks, ev)
            /\ active' = CancelRegistry(active, ev)
            /\ UNCHANGED <<handlers, posted, nClaims, dups>>
       ELSE IF MpIsSet(r.mp)
       THEN \* 954-971: cancel, log the chosen practice, await the send
            /\ tasks' = CancelTasks(active, tasks, ev)
            /\ active' = CancelRegistry(active, ev)
            /\ handlers' = (handlers (-) One(InLoop))
                              (+) One(InSend("sendTerminal", ev, NoneV))
            /\ UNCHANGED <<posted, nClaims, dups>>
       ELSE IF ~ClaimSucceeds(posted, ev)
       THEN \* 986-988
            /\ dups' = dups \cup {ev}
            /\ UNCHANGED <<handlers, posted, active, tasks, nClaims>>
       ELSE \* 989-1055: claim, build the text, await the send
            /\ posted' = PostedAdd(posted, ev)
            /\ nClaims' = [nClaims EXCEPT ![ev] = @ + 1]
            /\ handlers' = (handlers (-) One(InLoop))
                              (+) One(InSend("sendInitial", ev, r.owner))
            /\ UNCHANGED <<active, tasks, dups>>
    /\ UNCHANGED <<phase, deals_ids, chosen_practice_ids, todo, seen>>

\* 971-979: the send of the main-practice notification returned or raised;
\* the handler goes on with the next event either way
SendTerminalDone(hs) ==
    /\ phase = "serving"
    /\ hs.pc = "sendTerminal"
    /\ BagIn(hs, handlers)
    /\ handlers' = (handlers (-) One(hs)) (+) One(InLoop)
    /\ UNCHANGED <<phase, deals_ids, chosen_practice_ids, todo, seen, posted,
                   active, tasks, nClaims, dups>>

\* 1055-1119: the send of the initial notification returned (ok) or raised
SendInitialDone(hs, ok) ==
    /\ phase = "serving"
    /\ hs.pc = "sendInitial"
    /\ BagIn(hs, handlers)
    /\ tasks' = IF ReachesSchedule(ok) /\ SchedulesReminder(hs.owner)
                THEN [tasks EXCEPT ![hs.id] = Append(@, NewTask("event"))]
                ELSE tasks
    /\ handlers' = (handlers (-) One(hs))
                      (+) One(IF ok THEN InLoop ELSE OnEventException)
    /\ UNCHANGED <<phase, deals_ids, chosen_practice_ids, todo, seen, posted,
                   active, nClaims, dups>>

\* the for-loop is over: return JSONResponse
Return ==
    /\ phase = "serving"
    /\ BagIn(InLoop, handlers)
    /\ handlers' = handlers (-) One(InLoop)
    /\ UNCHANGED <<phase, deals_ids, chosen_practice_ids, todo, seen, posted,
                   active, tasks, nClaims, dups>>

\* ------------------------------------------------------------ specification
TaskIds(d) == 1..Len(tasks[d])
Suspended == BagToSet(handlers)

Next ==
    \/ \E d \in Ids, r \in FetchResults : RecoveryStep(d, r) /\ UNCHANGED aux
    \/ StartServing /\ UNCHANGED aux
    \/ Accept /\ UNCHANGED aux
    \/ \E e \in EventInputs : HandleEvent(e[1], e[2]) /\ UNCHANGED aux
    \/ \E hs \in Suspended : SendTerminalDone(hs) /\ UNCHANGED aux
    \/ \E hs \in Suspended, ok \in BOOLEAN :
          SendInitialDone(hs, ok) /\ UNCHANGED aux
    \/ Return /\ UNCHANGED aux
    \/ \E d \in Ids : \E t \in TaskIds(d) : TaskStart(d, t) /\ UNCHANGED aux
    \/ \E d \in Ids : \E t \in TaskIds(d), r \in FetchResults :
          TaskWake(d, t, r) /\ UNCHANGED aux
    \/ \E d \in Ids : \E t \in TaskIds(d), ok \in BOOLEAN :
          TaskSendDone(d, t, ok) /\ UNCHANGED aux
    \/ \E d \in Ids : \E t \in TaskIds(d) : TaskCancelled(d, t) /\ UNCHANGED aux

Spec == Init /\ [][Next]_vars

\* ------------------------------------------------- the life of the loops
\* The reminder loops armed at start-up, observed step by step: what the
\* fetch of each wake-up gave and how the send after it ended.  The webhook
\* delivers the events that end a loop (flag not true, main practice set).
NotEligibleStates == {DealT, DealF}

\* what hs_get_deal can give for the deal d: anything, until the deal has
\* settled in a state that is not eligible
FetchOf(d) == IF d \in settled THEN NotEligibleStates ELSE FetchResults

\* the deal d is updated in HubSpot for the last time: from now on its main
\* practice is set or its flag is not true, and it can be fetched
Settle(d) ==
    /\ phase = "serving"
    /\ d \notin settled
    /\ settled' = settled \cup {d}
    /\ UNCHANGED <<phase, deals_ids, chosen_practice_ids, todo, seen, posted,
                   active, tasks, handlers, nClaims, dups, lastFetch, lastSend,
                   batchAux, restartAux, interestVars, clockVars,
                   terminalVars, ownerVars, chainVars>>

LoopWake(d, t, r) ==
    /\ TaskWake(d, t, r)
    /\ lastFetch' = [lastFetch EXCEPT ![d] = r.st]
    /\ lastSend' = [lastSend EXCEPT ![d] = "none"]
    /\ UNCHANGED <<settled, batchAux, restartAux, interestVars, clockVars,
                   terminalVars, ownerVars, chainVars>>

LoopSendDone(d, t, ok) ==
    /\ TaskSendDone(d, t, ok)
    /\ lastSend' = [lastSend EXCEPT ![d] = IF ok THEN "ok" ELSE "fail"]
    /\ UNCHANGED <<lastFetch, settled, batchAux, restartAux, interestVars,
                   clockVars, terminalVars, ownerVars, chainVars>>

\* a step of a reminder loop of d
LoopStep(d) ==
    \E t \in TaskIds(d) :
        \/ TaskStart(d, t) /\ UNCHANGED aux
        \/ \E r \in FetchOf(d) : LoopWake(d, t, r)
        \/ \E ok \in BOOLEAN : LoopSendDone(d, t, ok)
        \/ TaskCancelled(d, t) /\ UNCHANGED aux

NextLoop ==
    \/ \E d \in Ids, r \in FetchResults : RecoveryStep(d, r) /\ UNCHANGED aux
    \/ StartServing /\ UNCHANGED aux
    \/ \E d \in Ids : Settle(d)
    \/ Accept /\ UNCHANGED aux
    \/ \E ev \in Ids, r \in NotEligibleStates :
          HandleEvent(ev, r) /\ UNCHANGED aux
    \/ \E hs \in Suspended : SendTerminalDone(hs) /\ UNCHANGED aux
    \/ Return /\ UNCHANGED aux
    \/ \E d \in Ids : \E t \in TaskIds(d) : TaskStart(d, t) /\ UNCHANGED aux
    \/ \E d \in Ids : \E t \in TaskIds(d), r \in FetchOf(d) : LoopWake(d, t, r)
    \/ \E d \in Ids : \E t \in TaskIds(d), ok \in BOOLEAN :
          LoopSendDone(d, t, ok)
    \/ \E d \in Ids : \E t \in TaskIds(d) : TaskCancelled(d, t) /\ UNCHANGED aux

LoopSpec == Init /\ [][NextLoop]_vars

\* asyncio resumes every task that is ready: a sleep ends, a send returns or
\* raises, a cancelled task is resumed
LiveSpec == LoopSpec /\ \A d \in Ids : WF_vars(LoopStep(d))

\* ------------------------------------------- deals that stay eligible
\* The loops of deals that stay eligible for good: whenever hs_get_deal
\* answers, the flag is true and the main practice is unset, so no event
\* cancels and no wake-up finds a reason to stop; the fetch and the sends may
\* still raise.  The requests arrive one after the other.
EligibleStates == {DealQ, DealQN}
EligibleFetch == EligibleStates \cup {FetchFailed}

\* where a loop was created: by the recovery pass or by the event path
Origins == {"recovery", "event"}

\* a step of the loop of d that o created
EligibleLoopStep(d, o) ==
    \E t \in TaskIds(d) :
        /\ tasks[d][t].origin = o
        /\ \/ TaskStart(d, t) /\ UNCHANGED aux
           \/ \E r \in EligibleFetch : LoopWake(d, t, r)
           \/ \E ok \in BOOLEAN : LoopSendDone(d, t, ok)

NextEligible ==
    \/ \E d \in Ids, r \in EligibleFetch : RecoveryStep(d, r) /\ UNCHANGED aux
    \/ StartServing /\ UNCHANGED aux
    \/ handlers = EmptyBag /\ Accept /\ UNCHANGED aux
    \/ \E ev \in Ids, r \in EligibleFetch : HandleEvent(ev, r) /\ UNCHANGED aux
    \/ \E hs \in Suspended, ok \in BOOLEAN :
          SendInitialDone(hs, ok) /\ UNCHANGED aux
    \/ Return /\ UNCHANGED aux
    \/ \E d \in Ids : \E t \in TaskIds(d) : TaskStart(d, t) /\ UNCHANGED aux
    \/ \E d \in Ids : \E t \in TaskIds(d), r \in EligibleFetch : LoopWake(d, t, r)
    \/ \E d \in Ids : \E t \in TaskIds(d), ok \in BOOLEAN :
          LoopSendDone(d, t, ok)

EligibleSpec == Init /\ [][NextEligible]_vars

\* asyncio resumes every task that is ready: the sleep of a loop ends after
\* its delay and its send returns or raises
EligibleLiveSpec ==
    EligibleSpec /\ \A d \in Ids, o \in Origins : WF_vars(EligibleLoopStep(d, o))

\* ------------------------------------------------- one batch at a time
\* The event path with the requests arriving one after the other, observed
\* for what went wrong while the batch of the request was processed: an event
\* without id, a fetch that raised, an initial send that raised.
BatchAccept ==
    /\ handlers = EmptyBag
    /\ Accept
    /\ troubles' = {}
    /\ UNCHANGED <<loopAux, restartAux, interestVars, clockVars,
                   terminalVars, ownerVars, chainVars>>

BatchEvent(ev, r) ==
    /\ HandleEvent(ev, r)
    /\ troubles' = IF ev = NoId THEN troubles \cup {"no id"}
                   ELSE IF r.st = "fail" THEN troubles \cup {"fetch"}
                   ELSE troubles
    /\ UNCHANGED <<loopAux, restartAux, interestVars, clockVars,
                   terminalVars, ownerVars, chainVars>>

BatchSendInitialDone(hs, ok) ==
    /\ SendInitialDone(hs, ok)
    /\ troubles' = IF ok THEN troubles ELSE troubles \cup {"send"}
    /\ UNCHANGED <<loopAux, restartAux, interestVars, clockVars,
                   terminalVars, ownerVars, chainVars>>

NextBatch ==
    \/ \E d \in Ids, r \in FetchResults : RecoveryStep(d, r) /\ UNCHANGED aux
    \/ StartServing /\ UNCHANGED aux
    \/ BatchAccept
    \/ \E e \in EventInputs : BatchEvent(e[1], e[2])
    \/ \E hs \in Suspended : SendTerminalDone(hs) /\ UNCHANGED aux
    \/ \E hs \in Suspended, ok \in BOOLEAN : BatchSendInitialDone(hs, ok)
    \/ Return /\ UNCHANGED aux

BatchSpec == Init /\ [][NextBatch]_vars

\* ------------------------------------------------------ process restarts
\* The event path over two lifetimes of the process, observed for the ids
\* whose initial notification was sent; the reminder loops take no step.
\* The process is stopped and started again: every module global is created
\* anew, the tasks and requests of the old process are gone, and on_startup
\* runs the recovery pass on what the two sheets hold by then.
Restart ==
    /\ restarts < MaxRestarts
    /\ restarts' = restarts + 1
    /\ sentBefore' = sentBefore \cup sent
    /\ sent' = {}
    /\ posted' = PostedAtStart(posted)
    /\ deals_ids' \in SUBSET Ids
    /\ chosen_practice_ids' \in SUBSET Ids
    /\ todo' = Candidates(deals_ids', chosen_practice_ids')
    /\ phase' = IF todo' = {} THEN "recovered" ELSE "recovering"
    /\ seen' = [d \in Ids |-> NotFetched]
    /\ active' = [d \in Ids |-> 0]
    /\ tasks' = [d \in Ids |-> << >>]
    /\ handlers' = EmptyBag
    /\ nClaims' = [d \in Ids |-> 0]
    /\ dups' = {}
    /\ interest' = [d \in Ids |-> {}]
    /\ clicks' = EmptyBag
    /\ UNCHANGED <<loopAux, batchAux, rows, nFirst, shown, clockVars,
                   terminalVars, ownerVars, chainVars>>

RestartSendInitialDone(hs, ok) ==
    /\ SendInitialDone(hs, ok)
    /\ sent' = IF ok THEN sent \cup {hs.id} ELSE sent
    /\ UNCHANGED <<sentBefore, restarts, loopAux, batchAux, interestVars,
                   clockVars, terminalVars, ownerVars, chainVars>>

NextRestart ==
    \/ \E d \in Ids, r \in FetchResults : RecoveryStep(d, r) /\ UNCHANGED aux
    \/ StartServing /\ UNCHANGED aux
    \/ Accept /\ UNCHANGED aux
    \/ \E e \in EventInputs : HandleEvent(e[1], e[2]) /\ UNCHANGED aux
    \/ \E hs \in Suspended : SendTerminalDone(hs) /\ UNCHANGED aux
    \/ \E hs \in Suspended, ok \in BOOLEAN : RestartSendInitialDone(hs, ok)
    \/ Return /\ UNCHANGED aux
    \/ Restart

RestartSpec == Init /\ [][NextRestart]_vars

\* ------------------------------------------- initial sends that fail
\* The event path of one process with the requests arriving one after the
\* other, observed for the ids whose initial notification was sent: a
\* delivery that is refused here comes after the send of the delivery that
\* claimed the id has ended.
NextOneByOne ==
    \/ \E d \in Ids, r \in FetchResults : RecoveryStep(d, r) /\ UNCHANGED aux
    \/ StartServing /\ UNCHANGED aux
    \/ handlers = EmptyBag /\ Accept /\ UNCHANGED aux
    \/ \E e \in EventInputs : HandleEvent(e[1], e[2]) /\ UNCHANGED aux
    \/ \E hs \in Suspended : SendTerminalDone(hs) /\ UNCHANGED aux
    \/ \E hs \in Suspended, ok \in BOOLEAN : RestartSendInitialDone(hs, ok)
    \/ Return /\ UNCHANGED aux

OneByOneSpec == Init /\ [][NextOneByOne]_vars

\* ------------------------------------- main-practice notifications
\* The event path observed for the deliveries that find the main practice
\* set: the rows handed to the Chosen_practice sheet and the notifications
\* sent off; the reminder loops take no step.  At most MaxDeliveries such
\* deliveries are followed.
MaxDeliveries == 3

\* mutant of ChosenRowsAfter: one row per id
ChosenRowsOncePerId(rws, ev, r) ==
    IF ev # NoId /\ r.st = "ok" /\ FlagIsTrue(r.flag) /\ MpIsSet(r.mp)
          /\ ~BagIn(ev, rws)
    THEN rws (+) One(ev)
    ELSE rws

\* main.py 920-966: the rows of the Chosen_practice sheet after one event;
\* append_chosen_practice_row_to_sheet is called when the flag is true and
\* the main practice is set, whatever _POSTED_DEALS holds
ChosenRowsAfter(rws, ev, r) ==
    IF ev # NoId /\ r.st = "ok" /\ FlagIsTrue(r.flag) /\ MpIsSet(r.mp)
    THEN rws (+) One(ev)
    ELSE rws

\* an event is processed; a request that was not and is now suspended in
\* the send of the main-practice notification of ev has sent one off
TerminalEvent(ev, r) ==
    /\ BagCardinality(terminalEvents) < MaxDeliveries
    /\ HandleEvent(ev, r)
    /\ chosenRows' = ChosenRowsAfter(chosenRows, ev, r)
    /\ terminalPosts' =
          IF CopiesIn(InSend("sendTerminal", ev, NoneV), handlers')
                > CopiesIn(InSend("sendTerminal", ev, NoneV), handlers)
          THEN terminalPosts (+) One(ev)
          ELSE terminalPosts
    /\ terminalEvents' =
          IF r.st = "ok" /\ r.flag \in {StrV("true"), StrV(" True "), BoolV(TRUE)}
                /\ r.mp \notin {NoneV, StrV(""), StrV("  ")}
          THEN terminalEvents (+) One(ev)
          ELSE terminalEvents
    /\ UNCHANGED <<loopAux, batchAux, restartAux, interestVars, clockVars,
                   ownerVars, chainVars>>

NextTerminal ==
    \/ \E d \in Ids, r \in FetchResults : RecoveryStep(d, r) /\ UNCHANGED aux
    \/ StartServing /\ UNCHANGED aux
    \/ Accept /\ UNCHANGED aux
    \/ \E e \in EventInputs : TerminalEvent(e[1], e[2])
    \/ \E hs \in Suspended : SendTerminalDone(hs) /\ UNCHANGED aux
    \/ \E hs \in Suspended, ok \in BOOLEAN :
          SendInitialDone(hs, ok) /\ UNCHANGED aux
    \/ Return /\ UNCHANGED aux

TerminalSpec == Init /\ [][NextTerminal]_vars

\* --------------------------------------------------- deals without owner
\* The event path and the recovery pass observed for the ids that an event
\* claimed while its deal had no owner; the reminder tasks run their first
\* step and no more.
OwnerEvent(ev, r) ==
    /\ HandleEvent(ev, r)
    /\ ownerless' = IF posted' # posted /\ ~Truthy(r.owner)
                    THEN ownerless \cup {ev}
                    ELSE ownerless
    /\ lateOwner' = IF ev \in ownerless /\ r.st = "ok" /\ Truthy(r.owner)
                    THEN lateOwner \cup {ev}
                    ELSE lateOwner
    /\ UNCHANGED <<loopAux, batchAux, restartAux, interestVars, clockVars,
                   terminalVars, chainVars>>

NextOwner ==
    \/ \E d \in Ids, r \in FetchResults : RecoveryStep(d, r) /\ UNCHANGED aux
    \/ StartServing /\ UNCHANGED aux
    \/ Accept /\ UNCHANGED aux
    \/ \E e \in EventInputs : OwnerEvent(e[1], e[2])
    \/ \E hs \in Suspended : SendTerminalDone(hs) /\ UNCHANGED aux
    \/ \E hs \in Suspended, ok \in BOOLEAN :
          SendInitialDone(hs, ok) /\ UNCHANGED aux
    \/ Return /\ UNCHANGED aux
    \/ \E d \in Ids : \E t \in TaskIds(d) : TaskStart(d, t) /\ UNCHANGED aux

OwnerSpec == Init /\ [][NextOwner]_vars

\* ------------------------------------------------------ interest clicks
\* interest_callback, called for every press of a button under a posted
\* deal; the recovery pass of the start-up comes first.
\* mutant of FirstTime: every click counts as the first
FirstTimeAlways(us, u) == TRUE

\* main.py 383: first_time = user.id not in users
FirstTime(us, u) == u \notin us

\* mutant of AddUser: the set is replaced
AddUserReplacing(us, u) == {u}

\* main.py 384: users.add(user.id)
AddUser(us, u) == us \cup {u}

\* main.py 376-387: "interest:<id>" pressed by u, up to the await of
\* edit_message_reply_markup
InterestClick(d, u) ==
    /\ phase = "serving"
    /\ BagCardinality(clicks) < MaxClicks
    /\ LET first_time == FirstTime(interest[d], u)
       IN  /\ interest' = [interest EXCEPT ![d] = AddUser(@, u)]
           /\ nFirst' = IF first_time THEN nFirst (+) One(<<d, u>>)
                        ELSE nFirst
           /\ clicks' = clicks
                 (+) One([id |-> d, user |-> u, first_time |-> first_time])
    /\ UNCHANGED <<rows, shown>>
    /\ UNCHANGED <<phase, deals_ids, chosen_practice_ids, todo, seen, posted,
                   active, tasks, handlers, nClaims, dups>>

\* main.py 388-395: the edit returned or raised (caught); the row is handed
\* to the sheet for a first click only, then the toast is answered
InterestEdited(c) ==
    /\ BagIn(c, clicks)
    /\ clicks' = clicks (-) One(c)
    /\ rows' = IF c.first_time THEN rows (+) One(<<c.id, c.user>>)
               ELSE rows
    /\ shown' = Toast(c.id, c.user,
                      IF c.first_time THEN "Interest recorded"
                      ELSE "You already marked interest")
    /\ UNCHANGED <<interest, nFirst>>
    /\ UNCHANGED <<phase, deals_ids, chosen_practice_ids, todo, seen, posted,
                   active, tasks, handlers, nClaims, dups>>

\* main.py 396-425: "list:<id>" pressed by u
ListRequest(d, u) ==
    /\ phase = "serving"
    /\ shown' = IF interest[d] = {}
                THEN Toast(d, u, "No one has marked interest yet")
                ELSE Popup(d, interest[d])
    /\ UNCHANGED <<interest, clicks, rows, nFirst>>
    /\ UNCHANGED <<phase, deals_ids, chosen_practice_ids, todo, seen, posted,
                   active, tasks, handlers, nClaims, dups>>

InFlight == BagToSet(clicks)

NextInterest ==
    \/ \E d \in Ids, r \in FetchResults : RecoveryStep(d, r) /\ UNCHANGED aux
    \/ StartServing /\ UNCHANGED aux
    \/ \E d \in Ids, u \in Users :
          InterestClick(d, u)
          /\ UNCHANGED <<loopAux, batchAux, restartAux, clockVars,
                         terminalVars, ownerVars, chainVars>>
    \/ \E c \in InFlight :
          InterestEdited(c)
          /\ UNCHANGED <<loopAux, batchAux, restartAux, clockVars,
                         terminalVars, ownerVars, chainVars>>
    \/ \E d \in Ids, u \in Users :
          ListRequest(d, u)
          /\ UNCHANGED <<loopAux, batchAux, restartAux, clockVars,
                         terminalVars, ownerVars, chainVars>>

InterestSpec == Init /\ [][NextInterest]_vars

\* ------------------------------------------------------ business clock
\* add_business_hours_msk(start_dt_utc, hours).  Time is counted in ticks,
\* TicksPerHour to the hour: a tick is the resolution of datetime and
\* timedelta.  An instant is the number of ticks since Monday 00:00 UTC of
\* some week; a local (Moscow) time is the number of ticks since Monday 00:00
\* on the Moscow wall clock of that week.  The argument hours is a float,
\* finer than the clock: it is counted in parts, SubTicks to the tick.
TicksPerHour == 2       \* resolution of the modelled clock
SubTicks == 2           \* grain of the hours asked for, in parts of a tick
MaxHours == 12          \* longest duration asked for, in hours
MskOffsetHours == 3     \* Europe/Moscow is UTC+3
HoursPerDay == 24
DaysPerWeek == 7
FirstWeekendDay == 5    \* weekday() of Saturday
WindowStartHour == 9
WindowEndHour == 19

TicksPerDay == HoursPerDay * TicksPerHour
TicksPerWeek == DaysPerWeek * TicksPerDay

\* the arguments of the calls
Starts == 0..(TicksPerWeek - 1)
Durations == (-TicksPerHour * SubTicks)..(MaxHours * TicksPerHour * SubTicks)

\* main.py 581: timedelta(hours=hours) holds whole ticks: hours is rounded
\* to the nearest tick, and half a tick to the even neighbour
Timedelta(h) ==
    LET q == h \div SubTicks
        r == h % SubTicks
    IN  IF 2 * r < SubTicks THEN q
        ELSE IF 2 * r > SubTicks THEN q + 1
        ELSE IF q % 2 = 0 THEN q ELSE q + 1

\* mutant of ToUtc: the local time is returned as it is
ToUtcKeepingLocal(l) == l

\* astimezone(MSK_TZ) and astimezone(ZoneInfo("UTC"))
ToMsk(u) == u + MskOffsetHours * TicksPerHour
ToUtc(l) == l - MskOffsetHours * TicksPerHour

\* weekday() of a local time: 0 is Monday
Weekday(l) == (l \div TicksPerDay) % DaysPerWeek

\* replace(hour=h, minute=0, second=0, microsecond=0)
AtHour(l, h) == (l \div TicksPerDay) * TicksPerDay + h * TicksPerHour

\* mutant of LoopGoesOn: the loop body is entered with nothing left
LoopGoesOnAtZero(rem) == rem >= 0

\* main.py 583: while remaining.total_seconds() > 0
LoopGoesOn(rem) == rem > 0

\* mutant of Consume: what is left after the window is added to its end
ConsumePastEnd(cur, rem, available) ==
    [current |-> cur + rem, remaining |-> 0, break |-> TRUE]

\* main.py 597-605: inside the window, with available = day_end - current_msk
Consume(cur, rem, available) ==
    IF available >= rem
    THEN [current |-> cur + rem, remaining |-> 0, break |-> TRUE]
    ELSE [current |-> cur + available, remaining |-> rem - available,
          break |-> FALSE]

\* mutant of Iterate: a time after the window is moved to 09:00 of the same
\* day
IterateSameDay(cur, rem) ==
    IF Weekday(cur) >= FirstWeekendDay
    THEN [current |-> AtHour(cur + (DaysPerWeek - Weekday(cur)) * TicksPerDay,
                             WindowStartHour),
          remaining |-> rem, break |-> FALSE]
    ELSE LET day_start == AtHour(cur, WindowStartHour)
             day_end == AtHour(cur, WindowEndHour)
         IN  IF cur < day_start
             THEN [current |-> day_start, remaining |-> rem, break |-> FALSE]
             ELSE IF cur >= day_end
             THEN [current |-> day_start, remaining |-> rem, break |-> FALSE]
             ELSE Consume(cur, rem, day_end - cur)

\* main.py 584-605: one pass of the loop body, from current_msk = cur and
\* remaining = rem; break tells that the pass left the loop
Iterate(cur, rem) ==
    IF Weekday(cur) >= FirstWeekendDay
    THEN \* 584-588: Saturday or Sunday
         [current |-> AtHour(cur + (DaysPerWeek - Weekday(cur)) * TicksPerDay,
                             WindowStartHour),
          remaining |-> rem, break |-> FALSE]
    ELSE LET day_start == AtHour(cur, WindowStartHour)
             day_end == AtHour(cur, WindowEndHour)
         IN  IF cur < day_start
             THEN \* 591-593
                  [current |-> day_start, remaining |-> rem, break |-> FALSE]
             ELSE IF cur >= day_end
             THEN \* 594-597
                  [current |-> AtHour(cur + TicksPerDay, WindowStartHour),
                   remaining |-> rem, break |-> FALSE]
             ELSE Consume(cur, rem, day_end - cur)

\* the call with its arguments, before its first statement
ClockInit ==
    /\ start_dt_utc \in Starts
    /\ hours \in Durations
    /\ cpc = "called"
    /\ current_msk = 0
    /\ remaining = 0
    /\ returned = 0
    /\ chosenRows = EmptyBag
    /\ terminalPosts = EmptyBag
    /\ terminalEvents = EmptyBag
    /\ ownerless = {}
    /\ lateOwner = {}
    /\ hours2 = 0
    /\ chained = 0
    /\ direct = 0
    /\ deals_ids = {}
    /\ chosen_practice_ids = {}
    /\ todo = {}
    /\ phase = "recovered"
    /\ seen = [d \in Ids |-> NotFetched]
    /\ posted = PostedAtStart({})
    /\ active = [d \in Ids |-> 0]
    /\ tasks = [d \in Ids |-> << >>]
    /\ handlers = EmptyBag
    /\ nClaims = [d \in Ids |-> 0]
    /\ dups = {}
    /\ lastFetch = [d \in Ids |-> "none"]
    /\ lastSend = [d \in Ids |-> "none"]
    /\ settled = {}
    /\ troubles = {}
    /\ sent = {}
    /\ sentBefore = {}
    /\ restarts = 0
    /\ interest = [d \in Ids |-> {}]
    /\ clicks = EmptyBag
    /\ rows = EmptyBag
    /\ nFirst = EmptyBag
    /\ shown = NoAnswer

\* what a step of the clock leaves alone
ClockFrame ==
    UNCHANGED <<phase, deals_ids, chosen_practice_ids, todo, seen, posted,
                active, tasks, handlers, nClaims, dups, loopAux, batchAux,
                restartAux, interestVars, terminalVars, ownerVars, chainVars,
                start_dt_utc, hours>>

\* main.py 581-582
ClockEnter ==
    /\ cpc = "called"
    /\ remaining' = Timedelta(hours)
    /\ current_msk' = ToMsk(start_dt_utc)
    /\ cpc' = "while"
    /\ returned' = returned
    /\ ClockFrame

\* main.py 583-605: the test of the while and, when it holds, the loop body
ClockIterate ==
    /\ cpc = "while"
    /\ LoopGoesOn(remaining)
    /\ LET n == Iterate(current_msk, remaining)
       IN  /\ current_msk' = n.current
           /\ remaining' = n.remaining
           /\ cpc' = IF n.break THEN "return" ELSE "while"
    /\ returned' = returned
    /\ ClockFrame

\* main.py 583, 606: the test of the while fails, or the body has left the
\* loop
ClockReturn ==
    /\ \/ cpc = "while" /\ ~LoopGoesOn(remaining)
       \/ cpc = "return"
    /\ returned' = ToUtc(current_msk)
    /\ cpc' = "done"
    /\ UNCHANGED <<current_msk, remaining>>
    /\ ClockFrame

NextClock ==
    \/ ClockEnter
    \/ ClockIterate
    \/ ClockReturn

ClockSpec == ClockInit /\ [][NextClock]_vars

\* the call runs on: nothing in it waits
ClockLiveSpec == ClockSpec /\ WF_vars(NextClock)

\* ------------------------------------------------- one call after another
\* The whole call as a function of its arguments: the while-loop of main.py
\* 583-605 run to its end from the local time cur with rem left, then the
\* conversion of 606.
RECURSIVE AdvanceFrom(_, _)
AdvanceFrom(cur, rem) ==
    IF ~LoopGoesOn(rem) THEN cur
    ELSE LET n == Iterate(cur, rem)
         IN  IF n.break THEN n.current
             ELSE AdvanceFrom(n.current, n.remaining)

add_business_hours_msk(s, h) == ToUtc(AdvanceFrom(ToMsk(s), Timedelta(h)))

\* A caller that asks for hours from start_dt_utc, then for hours2 from the
\* instant it got, and also for hours + hours2 from start_dt_utc.  Each call
\* is one step: the function is synchronous.
MaxPart == 3            \* longest of the two durations, in hours
Parts == 0..(MaxPart * TicksPerHour * SubTicks)

ChainInit ==
    /\ start_dt_utc \in Starts
    /\ hours \in Parts
    /\ hours2 \in Parts
    /\ cpc = "called"
    /\ current_msk = 0
    /\ remaining = 0
    /\ returned = 0
    /\ chained = 0
    /\ direct = 0
    /\ chosenRows = EmptyBag
    /\ terminalPosts = EmptyBag
    /\ terminalEvents = EmptyBag
    /\ ownerless = {}
    /\ lateOwner = {}
    /\ deals_ids = {}
    /\ chosen_practice_ids = {}
    /\ todo = {}
    /\ phase = "recovered"
    /\ seen = [d \in Ids |-> NotFetched]
    /\ posted = PostedAtStart({})
    /\ active = [d \in Ids |-> 0]
    /\ tasks = [d \in Ids |-> << >>]
    /\ handlers = EmptyBag
    /\ nClaims = [d \in Ids |-> 0]
    /\ dups = {}
    /\ lastFetch = [d \in Ids |-> "none"]
    /\ lastSend = [d \in Ids |-> "none"]
    /\ settled = {}
    /\ troubles = {}
    /\ sent = {}
    /\ sentBefore = {}
    /\ restarts = 0
    /\ interest = [d \in Ids |-> {}]
    /\ clicks = EmptyBag
    /\ rows = EmptyBag
    /\ nFirst = EmptyBag
    /\ shown = NoAnswer

\* what a call of the chain leaves alone
ChainFrame ==
    UNCHANGED <<phase, deals_ids, chosen_practice_ids, todo, seen, posted,
                active, tasks, handlers, nClaims, dups, loopAux, batchAux,
                restartAux, interestVars, terminalVars, ownerVars,
                start_dt_utc, hours, hours2, current_msk, remaining>>

ChainFirst ==
    /\ cpc = "called"
    /\ returned' = add_business_hours_msk(start_dt_utc, hours)
    /\ cpc' = "first"
    /\ UNCHANGED <<chained, direct>>
    /\ ChainFrame

ChainSecond ==
    /\ cpc = "first"
    /\ chained' = add_business_hours_msk(returned, hours2)
    /\ cpc' = "second"
    /\ UNCHANGED <<returned, direct>>
    /\ ChainFrame

ChainDirect ==
    /\ cpc = "second"
    /\ direct' = add_business_hours_msk(start_dt_utc, hours + hours2)
    /\ cpc' = "done"
    /\ UNCHANGED <<returned, chained>>
    /\ ChainFrame

NextChain ==
    \/ ChainFirst
    \/ ChainSecond
    \/ ChainDirect

ChainSpec == ChainInit /\ [][NextChain]_vars

\* main.py 621: the reminder is due after 8 business hours
ReminderHours == 8

\* main.py 622: delay = max(0, trigger_utc - now_utc), here in ticks
Delay(trigger_utc, now_utc) ==
    IF trigger_utc - now_utc > 0 THEN trigger_utc - now_utc ELSE 0

\* ------------------------------------------------------------------ claims
\* a loop that was spawned, has not ended and has not been told to end
Alive(t) == t.pc \in {"created", "sleeping", "sending"} /\ ~t.cancel
\* ... and has run its first step
Running(t) == t.pc \in {"sleeping", "sending"} /\ ~t.cancel

RunningLoops(d) == {t \in TaskIds(d) : Running(tasks[d][t])}

\* no loop of d is alive or registered, in the state after the step
NoLoopAfter(d) ==
    /\ active'[d] = 0
    /\ \A t \in 1..Len(tasks'[d]) : ~Alive(tasks'[d][t])
NoLoopNow(d) ==
    /\ active[d] = 0
    /\ \A t \in TaskIds(d) : ~Alive(tasks[d][t])

\* the fetched states the claims call qualifying, written out value by value
FlagTrueValues == {StrV("true"), StrV(" True "), BoolV(TRUE)}
MpUnsetValues == {NoneV, StrV(""), StrV("  ")}
EligibleResult(r) ==
    r.st = "ok" /\ r.flag \in FlagTrueValues /\ r.mp \in MpUnsetValues
QualifyingResult(r) == EligibleResult(r) /\ r.owner = StrV("o1")

\* C1: in every reachable state at most one reminder loop is running for
\* any given id.
AtMostOneLoopPerId == \A d \in Ids : Cardinality(RunningLoops(d)) <= 1

\* C2: of the deliveries of a qualifying event for one id exactly one claims
\* the id and every other one is refused: the claims that succeeded for an id
\* number 1 when the id is in PostedSet and 0 otherwise, a delivery is refused
\* only after one succeeded, and at most one initial notification of the id is
\* being sent.
ClaimExactlyOnce ==
    \A d \in Ids :
        /\ nClaims[d] = IF d \in posted THEN 1 ELSE 0
        /\ d \in dups => nClaims[d] = 1
        /\ \A hs \in Suspended :
              hs.pc = "sendInitial" /\ hs.id = d => CopiesIn(hs, handlers) = 1
        /\ Cardinality({hs \in Suspended :
                           hs.pc = "sendInitial" /\ hs.id = d}) <= 1

\* C2 witness: a delivery of the id was refused while the delivery that
\* claimed it is still sending the initial notification.
ConcurrentDuplicateRefused ==
    \E d \in dups : \E hs \in Suspended : hs.pc = "sendInitial" /\ hs.id = d

\* C3: while a loop is running for an id, no step spawns another loop for
\* that id and none registers another loop under it.
StartWhileRunningIsNoOp ==
    [][\A d \in Ids :
          RunningLoops(d) # {} =>
              /\ Len(tasks'[d]) = Len(tasks[d])
              /\ active'[d] \in {0, active[d]}]_vars

\* C4: a cancel(id) that finds the registered loop of id in its sleep tells
\* it to end, and a loop told to end in its sleep takes no other step than
\* ending: it sends nothing and starts no further iteration.
CancelDuringSleepEndsLoop ==
    [][\A d \in Ids :
          /\ \A r \in {DealT, DealF} :
                (/\ active[d] # 0
                 /\ tasks[d][active[d]].pc = "sleeping"
                 /\ active'[d] = 0
                 /\ HandleEvent(d, r))
                => tasks'[d][active[d]].cancel
          /\ \A t \in TaskIds(d) :
                (tasks[d][t].pc = "sleeping" /\ tasks[d][t].cancel)
                => /\ tasks'[d][t].pc \in {"sleeping", "cancelled"}
                   /\ tasks'[d][t].cancel]_vars

\* C4 witness: a loop in its sleep has been told to end.
CancelledInSleep ==
    \E d \in Ids : \E t \in TaskIds(d) :
        tasks[d][t].pc = "sleeping" /\ tasks[d][t].cancel

\* C5: a wake-up whose fetch succeeds and reports the deal not eligible stops
\* the loop without a send, a wake-up whose fetch reports it eligible starts
\* exactly one send, a send is started by a wake-up only, and a stopped loop
\* stays stopped: k eligible fetches and then a not eligible one make k sends.
StopsWhenNotEligible ==
    [][tasks' = tasks \/ \A d \in Ids : \A t \in TaskIds(d) :
          LET a == tasks[d][t]
              b == tasks'[d][t]
          IN  /\ (a.pc = "sleeping" /\ b.pc # "sleeping")
                    => \A r \in DealStates :
                          \/ b.pc = IF EligibleResult(r) THEN "sending"
                                    ELSE "stopped"
                          \/ ~TaskWake(d, t, r)
              /\ (b.pc = "sending" /\ a.pc # "sending")
                    => \E r \in FetchResults : TaskWake(d, t, r)
              /\ a.pc = "stopped" => b = a]_vars

\* C5 witness: a loop has stopped at a wake-up.
LoopStopped ==
    \E d \in Ids : \E t \in TaskIds(d) : tasks[d][t].pc = "stopped"

\* C6: when the event path has finished an event of an id whose fetched
\* state has the flag not true or the main practice set, no loop of the id
\* is alive or registered.
TerminalEventLeavesNoLoop ==
    [][\A d \in Ids :
          (\/ HandleEvent(d, DealF)
           \/ SendTerminalDone(InSend("sendTerminal", d, NoneV)))
          => NoLoopAfter(d)]_vars

QualifyingEventArmsLoop ==
    [][\A d \in Ids :
          (/\ NoLoopNow(d)
           /\ \/ d \in posted /\ HandleEvent(d, DealQ)
              \/ \E ok \in BOOLEAN :
                    SendInitialDone(InSend("sendInitial", d, DealQ.owner), ok))
          => Len(tasks'[d]) = Len(tasks[d]) + 1]_vars

\* C8 amended: the event path creates a loop for an id exactly when an event
\* of the id with an owner has claimed the id and its initial notification
\* was sent.  Once the server accepts requests, a step that spawns a loop for
\* an id is the successful return of the initial send of a delivery that
\* claimed the id and read an owner, and every such return spawns one loop;
\* a failed send or a deal without owner spawns none, and so does an event
\* whose claim is refused, whether or not a loop of the id is active.
ClaimedAndSentArmsLoop ==
    [][\A d \in Ids :
          /\ (phase = "serving" /\ Len(tasks'[d]) # Len(tasks[d]))
                => \E hs \in Suspended :
                      /\ hs.id = d
                      /\ hs.owner = StrV("o1")
                      /\ d \in posted
                      /\ SendInitialDone(hs, TRUE)
          /\ \A hs \in Suspended, ok \in BOOLEAN :
                (hs.pc = "sendInitial" /\ hs.id = d /\ SendInitialDone(hs, ok))
                => tasks'[d] = IF ok /\ hs.owner = StrV("o1")
                               THEN Append(tasks[d], NewTask("event"))
                               ELSE tasks[d]]_vars

\* C8 witness: the event path has created a loop, not yet started.
LoopCreatedByEvent ==
    \E d \in Ids : \E t \in TaskIds(d) :
        tasks[d][t].origin = "event" /\ tasks[d][t].pc = "created"

\* C9: when the recovery pass is over, a loop is armed for exactly the ids of
\* A minus B whose fetch succeeded with the flag true, the main practice
\* unset and an owner; no other id has a loop.
RecoveryArmsExactlyQualifying ==
    phase = "recovered" =>
        \A d \in Ids :
            tasks[d] = IF d \in deals_ids \ chosen_practice_ids
                          /\ QualifyingResult(seen[d])
                       THEN <<NewTask("recovery")>>
                       ELSE << >>

\* C9 witness: the pass armed one candidate and skipped another whose fetch
\* succeeded.
RecoveryArmedOneSkippedOne ==
    /\ phase = "recovered"
    /\ \E d, e \in Ids :
          /\ tasks[d] # << >>
          /\ seen[e].st = "ok"
          /\ tasks[e] = << >>

\* C10: when the recovery pass is over every candidate has been examined; a
\* candidate whose fetch failed has no loop, and a failure for one candidate
\* does not keep a qualifying other candidate from being armed.
FetchFailureSkipsOnlyThatCandidate ==
    phase = "recovered" =>
        \A d \in deals_ids \ chosen_practice_ids :
            /\ seen[d] # NotFetched
            /\ seen[d] = FetchFailed => tasks[d] = << >>
            /\ (QualifyingResult(seen[d])
                  /\ \E e \in Ids : seen[e] = FetchFailed)
               => Len(tasks[d]) = 1

\* C10 witness: one candidate's fetch failed and another candidate was armed.
RecoveryFailedOneArmedOther ==
    /\ phase = "recovered"
    /\ \E d, e \in Ids :
          /\ seen[d] = FetchFailed
          /\ tasks[e] # << >>

\* C11: a reminder send that fails leaves the loop as a send that succeeds
\* leaves it: sleeping towards its next wake-up, not told to end, and the
\* registry untouched.
SendFailureKeepsLoop ==
    [][\A d \in Ids : \A t \in TaskIds(d) :
          LoopSendDone(d, t, FALSE)
          => /\ tasks'[d][t].pc = "sleeping"
             /\ ~tasks'[d][t].cancel
             /\ tasks' = [tasks EXCEPT ![d][t].pc = "sleeping"]
             /\ active' = active]_vars

\* C11 witness: a loop sleeps towards its next wake-up after a send of it
\* failed.
SleepingAfterFailedSend ==
    \E d \in Ids : \E t \in TaskIds(d) :
        /\ lastSend[d] = "fail"
        /\ tasks[d][t].pc = "sleeping"
        /\ ~tasks[d][t].cancel

\* C12: a wake-up whose fetch fails goes on to send the reminder, and the
\* loop, unless it is told to end, completes that send and sleeps again.
FetchFailureProceeds ==
    [][\A d \in Ids : \A t \in TaskIds(d) :
          /\ LoopWake(d, t, FetchFailed)
                => (tasks'[d][t].pc = "sending" /\ active' = active)
          /\ (/\ lastFetch[d] = "fail"
               /\ tasks[d][t].pc = "sending"
               /\ ~tasks[d][t].cancel)
                => tasks'[d][t].pc \in {"sending", "sleeping"}]_vars

\* C12 witness: after a wake-up whose fetch failed the reminder was sent and
\* the loop sleeps again.
SentAfterFailedFetch ==
    \E d \in Ids : \E t \in TaskIds(d) :
        /\ lastFetch[d] = "fail"
        /\ lastSend[d] = "ok"
        /\ tasks[d][t].pc = "sleeping"

\* C20: once the deal of an id has settled in a state that is not eligible,
\* every loop of the id ends, and from then on none of them takes a step
\* again (no reminder is sent).
SettledLoopsStop ==
    \A d \in Ids :
        (d \in settled) ~> [](\A t \in TaskIds(d) : Done(tasks[d][t]))

\* C20 witness: a loop of a settled deal has stopped at a wake-up whose
\* fetch succeeded.
SettledLoopStopped ==
    \E d \in settled : \E t \in TaskIds(d) :
        tasks[d][t].pc = "stopped" /\ lastFetch[d] = "ok"

\* the loops of d that the event path created
EventLoops(tk, d) == {t \in 1..Len(tk[d]) : tk[d][t].origin = "event"}

\* C14: a cancel(id) that finds no loop registered for the id changes
\* neither the registry, nor PostedSet, nor any loop of any id; any cancel(id)
\* leaves PostedSet and the entries and loops of the other ids as they were,
\* and a second cancel(id) right after it would change nothing more.
CancelUnregisteredIsNoOp ==
    [][\A d \in Ids :
          (active'[d] = 0 /\ HandleEvent(d, DealF))
          => /\ active[d] = 0 => (active' = active /\ tasks' = tasks)
             /\ posted' = posted
             /\ \A e \in Ids \ {d} : active'[e] = active[e] /\ tasks'[e] = tasks[e]
             /\ CancelRegistry(active', d) = active'
             /\ CancelTasks(active', tasks', d) = tasks']_vars

\* C14 witness: the event path has cancelled an id that has a loop which is
\* not registered, and the loop was left as it was.
CancelledWithNoLoopRegistered ==
    \E hs \in Suspended :
        /\ hs.pc = "sendTerminal"
        /\ \E t \in TaskIds(hs.id) : tasks[hs.id][t] = NewTask("recovery")

\* C15: no step of a process lifetime removes an id from PostedSet.
PostedOnlyGrows == [][posted \subseteq posted']_vars

\* C15 witness: an id is still in PostedSet after a duplicate of it was
\* refused and a loop of it has ended.
PostedKeptAfterLoopEnded ==
    \E d \in posted :
        /\ d \in dups
        /\ \E t \in TaskIds(d) : Done(tasks[d][t])

\* C18: on the event path the loop of an id comes last: an id has a loop
\* created by an event only if it was claimed, exactly once, and its initial
\* notification was sent successfully and is no longer being sent; no id has
\* two such loops, and none while its claim has not succeeded, or while its
\* notification is being sent or after the send failed.
ClaimThenSendThenLoop ==
    \A d \in Ids :
        /\ Cardinality(EventLoops(tasks, d)) <= 1
        /\ EventLoops(tasks, d) # {}
              => /\ d \in posted
                 /\ nClaims[d] = 1
                 /\ d \in sent
                 /\ \A hs \in Suspended : ~(hs.pc = "sendInitial" /\ hs.id = d)

\* C18 witness: an id was claimed, its initial notification was sent and
\* its loop was created, and a later event of the id was refused and created
\* none.
EventLoopAfterClaimAndSend ==
    \E d \in dups : d \in sent /\ EventLoops(tasks, d) # {}

\* C13: PostedSet is empty when the process has restarted and stays empty
\* through the recovery pass, and a qualifying event for an id whose initial
\* notification an earlier process sent, when it is the first the new
\* process sees for the id, claims the id and sends the notification again.
RestartForgetsPosted ==
    [][/\ Restart => posted' = {}
       /\ phase' \in {"recovering", "recovered"} => posted' = {}
       /\ \A d \in sentBefore :
             (nClaims[d] = 0 /\ HandleEvent(d, DealQ))
             => /\ d \in posted'
                /\ BagIn(InSend("sendInitial", d, DealQ.owner), handlers')]_vars

\* C13 witness: the initial notification of an id that an earlier process
\* had sent has been sent again by the new process.
PostedAgainAfterRestart == \E d \in sentBefore : d \in sent

\* C19: an event without id changes neither PostedSet, nor the registry,
\* nor the loops; a fetch or a send that raises while an event is processed
\* changes none of them either; and after each of them the request is at
\* the top of its for-loop, where the next event of the batch is taken.
FailureNeverAbortsBatch ==
    [][/\ BatchEvent(NoId, NotFetched)
             => (UNCHANGED <<posted, active, tasks>> /\ BagIn(InLoop, handlers'))
       /\ \A d \in Ids :
             BatchEvent(d, FetchFailed)
             => (UNCHANGED <<posted, active, tasks>> /\ BagIn(InLoop, handlers'))
       /\ \A hs \in Suspended :
             (hs.pc = "sendInitial" /\ BatchSendInitialDone(hs, FALSE))
             => (UNCHANGED <<posted, active, tasks>> /\ BagIn(InLoop, handlers'))
       /\ troubles' # {}
             => \A h \in BagToSet(handlers') :
                   h.pc \in {"loop", "sendTerminal", "sendInitial"}]_vars

\* C19 witness: in one batch an event had no id, a fetch raised and a send
\* raised, and a later event of the batch has been claimed and is being
\* posted.
LaterEventProcessedAfterFailures ==
    /\ troubles = {"no id", "fetch", "send"}
    /\ \E hs \in Suspended : hs.pc = "sendInitial"

\* the clicks of u on d in flight that found first_time true
FirstInFlight(cl, d, u) ==
    CopiesIn([id |-> d, user |-> u, first_time |-> TRUE], cl)

\* C16: for every id and responder, exactly the first click finds first_time
\* true; it hands one row to the sheet and answers "Interest recorded".
\* Every later click of the pair, also one that arrives while the first
\* is still in flight, finds first_time false, leaves the responder set and
\* its count as they are, hands no row to the sheet and answers "You already
\* marked interest".
FirstClickOnlyOnce ==
    [][/\ \A d \in Ids, u \in Users :
             /\ CopiesIn(<<d, u>>, nFirst') = IF u \in interest'[d] THEN 1 ELSE 0
             /\ CopiesIn(<<d, u>>, rows') + FirstInFlight(clicks', d, u)
                   = CopiesIn(<<d, u>>, nFirst')
             /\ (u \in interest[d] /\ InterestClick(d, u))
                   => /\ interest' = interest
                      /\ Cardinality(interest'[d]) = Cardinality(interest[d])
                      /\ rows' = rows
                      /\ FirstInFlight(clicks', d, u) = FirstInFlight(clicks, d, u)
       /\ \A c \in InFlight :
             InterestEdited(c)
             => LET added == CopiesIn(<<c.id, c.user>>, rows')
                                - CopiesIn(<<c.id, c.user>>, rows)
                IN  /\ added = IF c.first_time THEN 1 ELSE 0
                    /\ shown'.text = IF added = 1 THEN "Interest recorded"
                                     ELSE "You already marked interest"]_vars

\* C16 witness: a responder clicked twice on an id: one row was handed to
\* the sheet, the last answer said the interest was already marked, and the
\* count of the id is 1.
SecondClickOfSameResponder ==
    \E d \in Ids, u \in Users :
        /\ CopiesIn(<<d, u>>, rows) = 1
        /\ shown = Toast(d, u, "You already marked interest")
        /\ Cardinality(interest[d]) = 1

\* C17: no click and no list request removes a responder from the set of
\* any id, nor makes the count of any id smaller.  (The event path, the
\* cancellations and the loops have no write to _INTEREST_USERS.)
ResponderSetsOnlyGrow ==
    [][\A d \in Ids :
          /\ interest[d] \subseteq interest'[d]
          /\ Cardinality(interest[d]) <= Cardinality(interest'[d])]_vars

\* C17 witness: every user is a responder of some id, a later click of one of
\* them is in flight and the list of the id has been shown.
AllRespondedAndListed ==
    \E d \in Ids :
        /\ interest[d] = Users
        /\ shown = Popup(d, Users)
        /\ \E c \in InFlight : c.id = d /\ ~c.first_time

\* a loop of d that o created is at one of the places pcs
LoopOf(d, o, pcs) ==
    \E t \in TaskIds(d) : tasks[d][t].origin = o /\ tasks[d][t].pc \in pcs

\* C21: the loop of a deal that stays eligible and is never cancelled never
\* ends and is never told to end, whatever its fetches and sends do; once it
\* has run its first step it starts the send of a reminder again and again,
\* and between two sends it sleeps.
EligibleLoopRemindsForever ==
    /\ [](\A d \in Ids : \A t \in TaskIds(d) :
             ~Done(tasks[d][t]) /\ ~tasks[d][t].cancel)
    /\ \A d \in Ids, o \in Origins :
          \/ <>[](~LoopOf(d, o, {"sleeping", "sending"}))
          \/ /\ []<>LoopOf(d, o, {"sending"})
             /\ []<>LoopOf(d, o, {"sleeping"})

\* C21 witness: the only loop of an id, created by an event, sleeps again
\* after a wake-up whose fetch succeeded and whose send failed.
RemindedTwiceAndSleeping ==
    \E d \in Ids : \E t \in TaskIds(d) :
        /\ tasks[d][t].origin = "event"
        /\ tasks[d][t].pc = "sleeping"
        /\ lastFetch[d] = "ok"
        /\ lastSend[d] = "fail"
        /\ Len(tasks[d]) = 1

\* the local time the call started from, and the local time it returned
StartMsk == ToMsk(start_dt_utc)
\* the duration asked for, as the call holds it
Duration == Timedelta(hours)
ReturnedMsk == ToMsk(returned)

\* the tick that begins at the local time l lies on a weekday between 09:00
\* and 19:00
IsBusinessTick(l) ==
    /\ (l % TicksPerWeek) < FirstWeekendDay * TicksPerDay
    /\ (l % TicksPerDay) >= WindowStartHour * TicksPerHour
    /\ (l % TicksPerDay) < WindowEndHour * TicksPerHour

\* the business time between the local times a and b, summed tick by tick
BusinessTicks(a, b) == Cardinality({l \in a..(b - 1) : IsBusinessTick(l)})

\* 09:00 of the Monday after the week of the local time l
NextMondayWindowStart(l) ==
    ((l \div TicksPerWeek) + 1) * TicksPerWeek + WindowStartHour * TicksPerHour

\* C22: a call with hours zero or negative returns the instant it was given,
\* whatever the day and the time of day of the start, and without moving the
\* local time.
ZeroOrNegativeReturnsStart ==
    (cpc = "done" /\ hours <= 0)
        => (returned = start_dt_utc /\ current_msk = StartMsk)

\* C22 witness: a call with zero hours that started on a Sunday has
\* returned.
ZeroHoursOnSundayReturned ==
    /\ cpc = "done"
    /\ hours = 0
    /\ (StartMsk % TicksPerWeek) \div TicksPerDay = DaysPerWeek - 1

\* C23: for a start inside the window of a weekday and a positive duration
\* that ends not later than the end of that day's window, the call returns
\* start + duration.
WithinOneDayIsAddition ==
    (/\ cpc = "done"
     /\ Duration > 0
     /\ StartMsk % TicksPerWeek < FirstWeekendDay * TicksPerDay
     /\ StartMsk % TicksPerDay >= WindowStartHour * TicksPerHour
     /\ (StartMsk % TicksPerDay) + Duration <= WindowEndHour * TicksPerHour)
        => returned = start_dt_utc + Duration

\* C23 witness: a call that started inside the window of a Friday and ends
\* exactly at the end of the window has returned.
ReturnedAtWindowEnd ==
    /\ cpc = "done"
    /\ Duration > 0
    /\ StartMsk \div TicksPerDay = FirstWeekendDay - 1
    /\ StartMsk % TicksPerDay > WindowStartHour * TicksPerHour
    /\ (StartMsk % TicksPerDay) + Duration = WindowEndHour * TicksPerHour

ClockTerminates ==
    /\ [][ClockIterate
          => \/ remaining' = 0 /\ cpc' = "return"
             \/ remaining' < remaining /\ remaining' > 0
             \/ /\ remaining' = remaining
                /\ current_msk' > current_msk
                /\ current_msk' % TicksPerDay = WindowStartHour * TicksPerHour]_vars
    /\ <>(cpc = "done")

\* C25 witness: a call that started on a Friday after the window with more
\* hours than one window holds has returned.
ReturnedAcrossWeekend ==
    /\ cpc = "done"
    /\ StartMsk \div TicksPerDay = FirstWeekendDay - 1
    /\ StartMsk % TicksPerDay >= WindowEndHour * TicksPerHour
    /\ Duration > (WindowEndHour - WindowStartHour) * TicksPerHour
    /\ remaining = 0

\* C26: the registry holds no stale entry: an id that is registered names a
\* loop of the id that has run its first step, has not ended and was not
\* told to end; and the step in which a loop ends (stopped at a wake-up or
\* cancelled) or is told to end leaves the id unregistered.
NoStaleEntry ==
    /\ [](\A d \in Ids :
             active[d] # 0
             => (active[d] \in TaskIds(d) /\ Running(tasks[d][active[d]])))
    /\ [][tasks' = tasks \/ \A d \in Ids :
             active'[d] = 0 \/ \A t \in TaskIds(d) :
                ~(\/ Done(tasks'[d][t]) /\ ~Done(tasks[d][t])
                  \/ tasks'[d][t].cancel /\ ~tasks[d][t].cancel)]_vars

\* C26 witness: a loop has stopped at a wake-up and its id is not
\* registered, while the loop of the other id is registered and running.
StoppedAndUnregistered ==
    \E d, e \in Ids :
        /\ active[d] = 0
        /\ \E t \in TaskIds(d) : tasks[d][t].pc = "stopped"
        /\ active[e] # 0
        /\ Running(tasks[e][active[e]])

\* C27 as stated: every loop that has run its first step, has not ended and
\* was not told to end is the loop the registry names for its id.
EveryRunningLoopRegistered ==
    \A d \in Ids : \A t \in TaskIds(d) :
        Running(tasks[d][t]) => active[d] = t

\* the initial send of d failed in this process: d was claimed, its
\* notification is not being sent and was not sent
SendFailed(d) ==
    /\ d \in posted
    /\ d \notin sent
    /\ \A hs \in Suspended : ~(hs.pc = "sendInitial" /\ hs.id = d)

\* C28: an initial send that fails leaves the id in PostedSet and creates no
\* loop; from then on the id stays in PostedSet, the event path creates no
\* loop for it, and every qualifying event of the id is refused as a
\* duplicate: it claims nothing, starts no send and creates no loop.
FailedSendKeepsClaim ==
    [][\A d \in Ids :
          /\ \A hs \in Suspended :
                (hs.pc = "sendInitial" /\ hs.id = d
                   /\ RestartSendInitialDone(hs, FALSE))
                => (d \in posted' /\ tasks' = tasks /\ d \notin sent')
          /\ SendFailed(d)
                => /\ d \in posted'
                   /\ d \notin sent'
                   /\ tasks'[d] = tasks[d]
                   /\ \A r \in EligibleStates :
                         HandleEvent(d, r)
                         => /\ d \in dups'
                            /\ UNCHANGED <<posted, handlers, tasks, active,
                                           nClaims>>]_vars

\* C28 witness: the initial send of an id failed and a later qualifying
\* event of the id was refused; the id has no loop.
RefusedAfterFailedSend ==
    \E d \in dups : SendFailed(d) /\ tasks[d] = << >>

\* C29: a loop starts a send only at a wake-up, that is when a sleep of it
\* has ended and the deal was fetched again, whether the fetch answered or
\* raised; a loop that has not slept sends nothing; after a send the loop
\* sleeps before it sends again; and a send ends only as the first one since
\* the last wake-up, so that each wake-up makes at most one reminder.
OneSleepAndOneCheckPerReminder ==
    [][\A d \in Ids : \A t \in TaskIds(d) :
          LET a == tasks[d][t]
              b == tasks'[d][t]
          IN  /\ (b.pc = "sending" /\ a.pc # "sending")
                    => /\ a.pc = "sleeping"
                       /\ \E r \in FetchResults : LoopWake(d, t, r)
                       /\ lastFetch'[d] # "none"
                       /\ lastSend'[d] = "none"
              /\ a.pc = "created" => b.pc \in {"created", "sleeping"}
              /\ (a.pc = "sending" /\ b.pc # "sending")
                    => /\ b.pc \in {"sleeping", "cancelled"}
                       /\ b.pc = "sleeping"
                             => /\ lastSend[d] = "none"
                                /\ lastSend'[d] # "none"
                                /\ lastFetch[d] # "none"]_vars

\* C29 witness: a loop armed at start-up sleeps again after a wake-up whose
\* fetch succeeded and whose send succeeded.
RemindedOnceAfterWakeUp ==
    \E d \in Ids : \E t \in TaskIds(d) :
        /\ tasks[d][t].origin = "recovery"
        /\ tasks[d][t].pc = "sleeping"
        /\ ~tasks[d][t].cancel
        /\ lastFetch[d] = "ok"
        /\ lastSend[d] = "ok"

\* C30: every event delivered for an id whose fetched state has the flag
\* true and the main practice set hands one row to the Chosen_practice sheet
\* and sends off one main-practice notification, whether or not the id is in
\* PostedSet and however many such deliveries came before: for every id the
\* rows and the notifications both number the deliveries.
TerminalNotDeduplicated ==
    /\ [](\A d \in Ids :
             /\ CopiesIn(d, chosenRows) = CopiesIn(d, terminalEvents)
             /\ CopiesIn(d, terminalPosts) = CopiesIn(d, terminalEvents))
    /\ [][\A d \in Ids :
             TerminalEvent(d, DealT)
             => /\ CopiesIn(d, chosenRows') = CopiesIn(d, chosenRows) + 1
                /\ CopiesIn(d, terminalPosts') = CopiesIn(d, terminalPosts) + 1
                /\ posted' = posted]_vars

\* C30 witness: an id that is in PostedSet was delivered three times with
\* the main practice set: three rows and three notifications.
ThreeTerminalDeliveries ==
    \E d \in posted :
        /\ CopiesIn(d, terminalEvents) = MaxDeliveries
        /\ CopiesIn(d, chosenRows) = MaxDeliveries
        /\ CopiesIn(d, terminalPosts) = MaxDeliveries

\* C31: no reminder task is created for an id whose deal has no owner when
\* the arming is decided: a task created by the recovery pass is for a
\* candidate fetched with an owner, and a task created by the event path ends
\* the send of a request that claimed the id for a deal with an owner.  An
\* id that an event claimed without owner stays posted and gets no task from
\* any event of this process, whatever owner the later events carry.
OwnerlessNeverArmed ==
    /\ [](\A d \in ownerless :
             /\ d \in posted
             /\ \A t \in TaskIds(d) : tasks[d][t].origin # "event")
    /\ [][\A d \in Ids :
             Len(tasks'[d]) > Len(tasks[d])
             => LET n == tasks'[d][Len(tasks'[d])]
                IN  \/ /\ n.origin = "recovery"
                       /\ Truthy(seen'[d].owner)
                    \/ /\ n.origin = "event"
                       /\ \E hs \in Suspended :
                             /\ hs = InSend("sendInitial", d, hs.owner)
                             /\ Truthy(hs.owner)
                             /\ CopiesIn(hs, handlers')
                                   < CopiesIn(hs, handlers)]_vars

\* an id was claimed and posted without owner, an event of the same deal
\* with an owner came later, every request has returned, and the id has no
\* task
OwnerSetLaterAndNoLoop ==
    \E d \in lateOwner :
       /\ handlers = EmptyBag
       /\ tasks[d] = << >>

\* C32: the delay of a reminder, from now to 8 business hours after now, is
\* at least 8 hours and at most 70 hours whatever now is, and it is 70 hours
\* only for a now on Friday after 11:00 Moscow time.
ReminderDelayBounds ==
    (cpc = "done" /\ hours = ReminderHours * TicksPerHour * SubTicks)
    => LET delay == Delay(returned, start_dt_utc)
       IN  /\ delay >= 8 * TicksPerHour
           /\ delay <= 70 * TicksPerHour
           /\ delay = 70 * TicksPerHour
                 => /\ Weekday(StartMsk) = FirstWeekendDay - 1
                    /\ StartMsk % TicksPerDay > 11 * TicksPerHour

\* the call for a reminder has returned, now being the first tick after
\* 11:00 of a Friday in Moscow, and the delay is 70 hours
SeventyHoursFromFriday ==
    /\ cpc = "done"
    /\ hours = ReminderHours * TicksPerHour * SubTicks
    /\ StartMsk = (FirstWeekendDay - 1) * TicksPerDay + 11 * TicksPerHour + 1
    /\ Delay(returned, start_dt_utc) = 70 * TicksPerHour

\* The steps of ClockSpec and the function of the chain are the same call:
\* what the step-by-step run returns is what the function gives (an
\* invariant of ClockSpec).
StepsComputeTheCall ==
    cpc = "done" => returned = add_business_hours_msk(start_dt_utc, hours)

\* C33 as stated: for every start and all durations a, b >= 0, the call
\* for b from the instant the call for a returned gives the instant the call
\* for a + b from the start gives.
AdvanceIsAdditive ==
    cpc = "done" => chained = direct

\* C33: each call rounds the hours it is given to the resolution of the
\* clock, so the call for b from the instant the call for a returned gives
\* the instant that lies the two rounded durations after the start; for a
\* and b that are whole ticks this is the instant the call for a + b from
\* the start gives, also when the first call ends at the end of a window or
\* starts on a weekend.
AdditiveAtClockResolution ==
    cpc = "done"
    => /\ chained = ToUtc(AdvanceFrom(ToMsk(start_dt_utc),
                                     Timedelta(hours) + Timedelta(hours2)))
       /\ (hours % SubTicks = 0 /\ hours2 % SubTicks = 0) => chained = direct

\* the three calls have returned, both durations being whole ticks; the
\* first, for a positive duration, ended at 19:00 of a Friday in Moscow, and
\* the second, also for a positive duration, ended on the Monday after
ChainedOverWindowEndAndWeekend ==
    /\ cpc = "done"
    /\ hours > 0 /\ hours % SubTicks = 0
    /\ hours2 > 0 /\ hours2 % SubTicks = 0
    /\ ToMsk(returned) = AtHour((FirstWeekendDay - 1) * TicksPerDay,
                                WindowEndHour)
    /\ Weekday(ToMsk(chained)) = 0
    /\ chained = direct

====
